---- MODULE Spec2Model ----
(***************************************************************************)
(* The Notion tree generator: the command line interface (cli.js) and the  *)
(* export script (export-tree.js).  The traversal is modelled as a state   *)
(* machine whose steps are the stretches of synchronous code between two   *)
(* awaits.  The remote store answers every call nondeterministically: it   *)
(* may fail the call or return a bounded listing of fresh items.  The      *)
(* loading animation and the SIGINT handler act between those steps, while *)
(* a remote call is pending.                                               *)
(***************************************************************************)
EXTENDS Integers, Sequences, FiniteSets, TLC

VARIABLES
  entry,               \* "cli" (cli.js) or "export" (export-tree.js)
  untitled,            \* whether the workspace holds items with missing or empty titles
  listing,             \* the order in which the workspace lists its own top-level items
  interrupted,         \* whether the SIGINT handler has run
  apiKey,              \* whether NOTION_API_KEY is set
  options,             \* options.maxDepth, options.includeUrls
  pc,                  \* position of the main function
  exitCode,            \* the process exit status, read when pc = "exit"
  rootItems,           \* rootItems of fetchRootItems / rootNodes of the main function
  rootIndex,           \* the loop variable i of the main function (1-based)
  tree,                \* the array tree of the main function: indices into nodes
  nodes,               \* every TreeNode created so far, in creation order
  stack,               \* the activations of buildTreeRecursively
  fetch,               \* the locals of the running fetchPageChildren
  ret,                 \* the node a finished buildTreeRecursively hands back (0: none)
  outstanding,         \* remote calls issued and not yet answered
  calls,               \* history: every answered remote call with its response
  nextId,              \* the next unused remote identifier
  warnings,            \* console.error lines of the recoverable listing failures
  errors,              \* console.error lines of the fatal handler
  rendered,            \* whether the finished tree was displayed or exported
  totalNodesProcessed, \* the global counter of buildTreeRecursively
  quiet,               \* options.quiet
  spinner,             \* the globals of the loading animation
  first                \* the finished run of the other script, when its responses
                       \* are replayed to this one

\* the traversal and the remote store
vars == <<entry, untitled, listing, interrupted,
          apiKey, options, pc, exitCode, rootItems, rootIndex, tree, nodes,
          stack, fetch, ret, outstanding, calls, nextId, warnings, errors,
          rendered, totalNodesProcessed>>

(***************************************************************************)
(* Bounds of the model.                                                    *)
(***************************************************************************)
\* the remote store holds at most MaxIds items (pages, databases, blocks)
MaxIds == 3
\* options.maxDepth = Infinity: above every depth a store of MaxIds items has
Infinity == MaxIds + 1
\* the depth bounds a run is configured with
DepthChoices == {0, 1, Infinity}

(***************************************************************************)
(* Values.                                                                 *)
(***************************************************************************)
\* the url of an item that has none (null); a url is <<id>>
null == <<>>
\* the url the remote store reports for the item id
UrlOf(id) == <<id>>
\* start_cursor: undefined
undefined == 0

RECURSIVE Join(_)
\* property.title.map(text => text.plain_text).join('')
Join(runs) == IF runs = <<>> THEN "" ELSE Head(runs) \o Join(Tail(runs))

\* Helper function to extract page title
getPageTitle(page) ==
  IF Len(page.title) > 0 THEN Join(page.title)
  ELSE IF page.child_page_title # "" THEN page.child_page_title
  ELSE "Untitled"

\* Helper function to extract database title
getDatabaseTitle(database) ==
  IF Len(database.title) > 0 THEN Join(database.title) ELSE "Untitled Database"

\* new TreeNode(id, title, type, url)
TreeNode(id, title, type, url) ==
  [id |-> id, title |-> title, type |-> type, url |-> url, children |-> <<>>]

\* urls included whatever the option says
IncludeUrls_always == TRUE

\* only the command line ever asks for urls
IncludeUrls_cliOnly == entry = "cli" /\ options.includeUrls

\* whether the items of this run carry urls
IncludeUrls == IF entry = "cli" THEN options.includeUrls ELSE TRUE

\* the depth check missing
DepthReached_never(depth) == FALSE

\* the depth check off by one: depth > options.maxDepth
DepthReached_offByOne(depth) == entry = "cli" /\ depth > options.maxDepth

\* if (depth >= options.maxDepth) return node; the export script has no depth check
DepthReached(depth) == entry = "cli" /\ depth >= options.maxDepth

(***************************************************************************)
(* The remote store.                                                       *)
(***************************************************************************)
\* the rich-text runs of a remote title property
TitleRuns == IF untitled THEN {<<>>, <<"">>, <<"A", "B">>} ELSE {<<"A", "B">>}
\* the title a child_page or child_database block embeds
BlockTitles(named) == IF untitled THEN {"", named} ELSE {named}
\* a search result, before its id is known
PageShapes == [workspace : {TRUE}, title : TitleRuns]
                \cup [workspace : {FALSE}, title : {<<"A", "B">>}]
\* a database row, before its id is known
RowShapes == [workspace : {FALSE}, title : TitleRuns]
\* the blocks of a page: child pages, child databases, anything else
BlockShapes == [type : {"child_page"}, title : BlockTitles("Sub")]
                 \cup [type : {"child_database"}, title : BlockTitles("Db")]
                 \cup [type : {"paragraph"}, title : {""}]

\* the number of items the store can still hand out
Remaining == MaxIds + 1 - nextId

\* every sequence over S of length at most k
SeqsUpTo(S, k) == UNION {[1..n -> S] : n \in 0..k}

\* the search results or database rows of the shapes sh, with fresh ids; parent is
\* "workspace" or "nested" (parent.type page_id, database_id, block_id)
RemoteObjects(sh, object) ==
  [j \in 1..Len(sh) |->
    [id |-> nextId + j - 1, object |-> object,
     parent |-> IF sh[j].workspace THEN "workspace" ELSE "nested",
     title |-> sh[j].title, child_page_title |-> "",
     url |-> UrlOf(nextId + j - 1)]]

\* the blocks of the shapes sh, with fresh ids
RemoteBlocks(sh) ==
  [j \in 1..Len(sh) |->
    [id |-> nextId + j - 1, type |-> sh[j].type, title |-> sh[j].title]]

\* has_more of a listing response: the store reports more only after a non-empty
\* page of results and when it holds more items
MayHaveMore(n, left) == IF n >= 1 /\ left >= 1 THEN BOOLEAN ELSE {FALSE}

\* a call the client has issued
Call(op, id, cursor) == [op |-> op, id |-> id, cursor |-> cursor]

\* the history entry of an answered call
Answered(call, ok, results, has_more) ==
  [op |-> call.op, id |-> call.id, cursor |-> call.cursor, ok |-> ok,
   results |-> results, has_more |-> has_more,
   next_cursor |-> IF has_more THEN call.cursor + 1 ELSE undefined]

NoFetch ==
  [active |-> FALSE, pageId |-> 0, children |-> <<>>, hasMore |-> TRUE,
   cursor |-> undefined, state |-> "list", results |-> <<>>, pos |-> 1,
   has_more |-> FALSE, next_cursor |-> undefined]

\* the state after the module's top-level code: options parsed, nothing fetched
Start0 ==
  /\ entry \in {"cli", "export"}
  /\ apiKey \in BOOLEAN
  /\ options \in [maxDepth : DepthChoices, includeUrls : BOOLEAN]
  /\ entry = "export" => options = [maxDepth |-> Infinity, includeUrls |-> TRUE]
  /\ interrupted = FALSE
  /\ pc = "start"
  /\ exitCode = 0
  /\ rootItems = <<>>
  /\ rootIndex = 1
  /\ tree = <<>>
  /\ nodes = <<>>
  /\ stack = <<>>
  /\ fetch = NoFetch
  /\ ret = 0
  /\ outstanding = {}
  /\ calls = <<>>
  /\ nextId = 1
  /\ warnings = 0
  /\ errors = 0
  /\ rendered = FALSE
  /\ totalNodesProcessed = 0

\* const frames = [...]: the ten frames of the loading animation
frames == 10

\* the globals of the loading animation after the module's top-level code
Spinner0 ==
  [isSpinnerActive |-> FALSE, frameIndex |-> 0, currentStatusMessage |-> "",
   processedItems |-> 0, totalItems |-> 0]

\* no run was recorded
NoRun == [done |-> FALSE, calls |-> <<>>, nodes |-> <<>>, tree |-> <<>>,
          rendered |-> FALSE]

\* options.maxDepth unbounded and options.includeUrls set: the options under which
\* the command line is compared with the export script
UnboundedWithUrls == [maxDepth |-> Infinity, includeUrls |-> TRUE]

\* the run reports no progress: --quiet; the export script has no such option
Quiet == entry = "cli" /\ quiet

\* startSpinner(initialMessage)
startSpinner(s, initialMessage) ==
  IF Quiet THEN s
  ELSE [s EXCEPT !.currentStatusMessage = initialMessage, !.isSpinnerActive = TRUE]

\* updateSpinnerMessage(message)
updateSpinnerMessage(s, message) ==
  IF Quiet THEN s ELSE [s EXCEPT !.currentStatusMessage = message]

\* updateProgressCounter(processed)
updateProgressCounter(s, processed) ==
  IF Quiet THEN s ELSE [s EXCEPT !.processedItems = processed]

\* stopSpinner()
stopSpinner(s) ==
  IF ~s.isSpinnerActive \/ Quiet THEN s ELSE [s EXCEPT !.isSpinnerActive = FALSE]

\* a quiet run over a workspace whose items all carry a title and whose pages
\* precede its databases
Init ==
  /\ Start0
  /\ untitled = FALSE
  /\ listing = "pages-first"
  /\ quiet = TRUE
  /\ spinner = Spinner0
  /\ first = NoRun

\* a workspace that also holds items with missing or empty titles
InitTitles ==
  /\ Start0
  /\ untitled = TRUE
  /\ listing = "pages-first"
  /\ quiet = TRUE
  /\ spinner = Spinner0
  /\ first = NoRun

\* a workspace that lists its databases before its pages
InitRoots ==
  /\ Start0
  /\ untitled = FALSE
  /\ listing = "databases-first"
  /\ quiet = TRUE
  /\ spinner = Spinner0
  /\ first = NoRun

\* the export script runs first, over a workspace whose items all carry a title;
\* the command line that follows it runs with unbounded depth and urls
InitTwin ==
  /\ Start0
  /\ entry = "export"
  /\ options = UnboundedWithUrls
  /\ untitled = FALSE
  /\ listing = "pages-first"
  /\ quiet = TRUE
  /\ spinner = Spinner0
  /\ first = NoRun

\* a run of the command line without --quiet: it reports its progress
InitSpinner ==
  /\ Start0
  /\ entry = "cli"
  /\ untitled = FALSE
  /\ listing = "pages-first"
  /\ quiet = FALSE
  /\ spinner = Spinner0
  /\ first = NoRun

(***************************************************************************)
(* The main function up to the end of root discovery.                      *)
(***************************************************************************)
\* generateNotionTree / exportNotionTree up to the first await
Start ==
  /\ pc = "start"
  /\ IF entry = "cli" /\ ~apiKey
     THEN /\ pc' = "exit"
          /\ exitCode' = 1
          /\ errors' = errors + 1
          /\ UNCHANGED outstanding
     ELSE /\ pc' = "searchPages"
          /\ outstanding' = outstanding \cup {Call("search.page", 0, undefined)}
          /\ UNCHANGED <<exitCode, errors>>
  /\ UNCHANGED <<entry, untitled, listing, interrupted,
                 apiKey, options, rootItems, rootIndex, tree, nodes, stack,
                 fetch, ret, calls, nextId, warnings, rendered, totalNodesProcessed>>

\* the catch block of the main function
FatalCatch ==
  /\ errors' = errors + 1
  /\ pc' = "exit"
  /\ exitCode' = IF entry = "cli" THEN 1 ELSE exitCode

\* the parent filter missing: every result of the search is kept
RootItemsOf_keepsNested(results, object) ==
  [j \in 1..Len(results) |->
    [id |-> results[j].id,
     title |-> IF object = "page" THEN getPageTitle(results[j])
               ELSE getDatabaseTitle(results[j]),
     type |-> results[j].object,
     url |-> IF IncludeUrls THEN results[j].url ELSE null]]

\* the root items fetchRootItems keeps of one search response
RootItemsOf(results, object) ==
  LET keep == SelectSeq(results, LAMBDA r : r.parent = "workspace")
  IN [j \in 1..Len(keep) |->
       [id |-> keep[j].id,
        title |-> IF object = "page" THEN getPageTitle(keep[j])
                  ELSE getDatabaseTitle(keep[j]),
        type |-> keep[j].object,
        url |-> IF IncludeUrls THEN keep[j].url ELSE null]]

\* the kept items of the second search put before those of the first
rootItemsPush_unshift(items, kept) == kept \o items

\* rootItems.push(...) for every kept item of one search, in response order
rootItemsPush(items, kept) == items \o kept

\* fetchRootItems: the page search answers
SearchPagesResume ==
  /\ pc = "searchPages"
  /\ Call("search.page", 0, undefined) \in outstanding
  /\ \/ /\ apiKey
        /\ \E sh \in SeqsUpTo(PageShapes, Remaining) :
             LET results == RemoteObjects(sh, "page") IN
             /\ calls' = Append(calls,
                  Answered(Call("search.page", 0, undefined), TRUE, results, FALSE))
             /\ nextId' = nextId + Len(sh)
             /\ rootItems' = rootItemsPush(rootItems, RootItemsOf(results, "page"))
        /\ outstanding' = (outstanding \ {Call("search.page", 0, undefined)})
                             \cup {Call("search.database", 0, undefined)}
        /\ pc' = "searchDatabases"
        /\ UNCHANGED <<exitCode, errors>>
     \/ /\ calls' = Append(calls,
             Answered(Call("search.page", 0, undefined), FALSE, <<>>, FALSE))
        /\ outstanding' = outstanding \ {Call("search.page", 0, undefined)}
        /\ FatalCatch
        /\ UNCHANGED <<nextId, rootItems>>
  /\ UNCHANGED <<entry, untitled, listing, interrupted,
                 apiKey, options, rootIndex, tree, nodes, stack, fetch, ret,
                 warnings, rendered, totalNodesProcessed>>

\* fetchRootItems: the database search answers; then the main function up to its loop
SearchDatabasesResume ==
  /\ pc = "searchDatabases"
  /\ Call("search.database", 0, undefined) \in outstanding
  /\ outstanding' = outstanding \ {Call("search.database", 0, undefined)}
  /\ \/ /\ apiKey
        /\ \E sh \in SeqsUpTo(PageShapes, Remaining) :
             LET results == RemoteObjects(sh, "database") IN
             /\ calls' = Append(calls,
                  Answered(Call("search.database", 0, undefined), TRUE, results, FALSE))
             /\ nextId' = nextId + Len(sh)
             /\ rootItems' = rootItemsPush(rootItems, RootItemsOf(results, "database"))
        /\ pc' = "roots"
        /\ UNCHANGED <<exitCode, errors>>
     \/ /\ calls' = Append(calls,
             Answered(Call("search.database", 0, undefined), FALSE, <<>>, FALSE))
        /\ FatalCatch
        /\ UNCHANGED <<nextId, rootItems>>
  /\ UNCHANGED <<entry, untitled, listing, interrupted,
                 apiKey, options, rootIndex, tree, nodes, stack, fetch, ret,
                 warnings, rendered, totalNodesProcessed>>

(***************************************************************************)
(* buildTreeRecursively.                                                   *)
(***************************************************************************)
\* an activation of buildTreeRecursively that awaits its listing or loops over it
Frame(node, id, depth, state) ==
  [node |-> node, id |-> id, depth |-> depth, state |-> state,
   items |-> <<>>, pos |-> 1]

\* the node is handed to its parent when it is created, before its own children
\* are fetched
buildTreeRecursively_attachesEarly(item, depth) ==
  LET n == Len(nodes) + 1
      created == Append(nodes, TreeNode(item.id, item.title, item.type, item.url)) IN
  /\ nodes' = IF stack = <<>> THEN created
              ELSE [created EXCEPT ![stack[Len(stack)].node].children = Append(@, n)]
  /\ totalNodesProcessed' = totalNodesProcessed + 1
  /\ IF DepthReached(depth)
     THEN /\ ret' = n
          /\ UNCHANGED <<fetch, outstanding>>
          /\ stack' = stack
     ELSE IF item.type = "database"
     THEN /\ stack' = Append(stack, Frame(n, item.id, depth, "fetchDatabasePages"))
          /\ outstanding' = outstanding \cup {Call("query", item.id, undefined)}
          /\ UNCHANGED <<fetch, ret>>
     ELSE IF item.type = "page"
     THEN /\ stack' = Append(stack, Frame(n, item.id, depth, "fetchPageChildren"))
          /\ fetch' = [NoFetch EXCEPT !.active = TRUE, !.pageId = item.id]
          /\ outstanding' = outstanding \cup {Call("list", item.id, undefined)}
          /\ UNCHANGED ret
     ELSE /\ ret' = n
          /\ UNCHANGED <<fetch, outstanding>>
          /\ stack' = stack

\* buildTreeRecursively(item, depth) up to its first await or its return
buildTreeRecursively(item, depth) ==
  LET n == Len(nodes) + 1 IN
  /\ nodes' = Append(nodes, TreeNode(item.id, item.title, item.type, item.url))
  /\ totalNodesProcessed' = totalNodesProcessed + 1
  /\ IF DepthReached(depth)
     THEN /\ ret' = n
          /\ UNCHANGED <<fetch, outstanding>>
          /\ stack' = stack
     ELSE IF item.type = "database"
     THEN /\ stack' = Append(stack, Frame(n, item.id, depth, "fetchDatabasePages"))
          /\ outstanding' = outstanding \cup {Call("query", item.id, undefined)}
          /\ UNCHANGED <<fetch, ret>>
     ELSE IF item.type = "page"
     THEN /\ stack' = Append(stack, Frame(n, item.id, depth, "fetchPageChildren"))
          /\ fetch' = [NoFetch EXCEPT !.active = TRUE, !.pageId = item.id]
          /\ outstanding' = outstanding \cup {Call("list", item.id, undefined)}
          /\ UNCHANGED ret
     ELSE /\ ret' = n
          /\ UNCHANGED <<fetch, outstanding>>
          /\ stack' = stack

\* the loop of the main function starts the next root, or leaves the loop
NextRoot ==
  /\ pc = "roots"
  /\ stack = <<>>
  /\ ret = 0
  /\ IF rootIndex <= Len(rootItems)
     THEN /\ buildTreeRecursively(rootItems[rootIndex], 0)
          /\ UNCHANGED pc
     ELSE /\ pc' = "output"
          /\ UNCHANGED <<nodes, totalNodesProcessed, stack, fetch, ret, outstanding>>
  /\ UNCHANGED <<entry, untitled, listing, interrupted,
                 apiKey, options, exitCode, rootItems, rootIndex, tree, calls,
                 nextId, warnings, errors, rendered>>

\* assignment instead of push: the new child replaces the earlier ones
addChild_replaces(ns, parent, child) ==
  [ns EXCEPT ![parent].children = <<child>>]

\* unshift instead of push
addChild_prepends(ns, parent, child) ==
  [ns EXCEPT ![parent].children = <<child>> \o @]

\* node.addChild(childNode) on the node at index parent
addChild(ns, parent, child) ==
  [ns EXCEPT ![parent].children = Append(@, child)]

\* a finished buildTreeRecursively resumes its caller: tree.push(node) in the main
\* function, node.addChild(childNode) in the loop of the parent activation
ReturnToCaller ==
  /\ pc = "roots"
  /\ ret # 0
  /\ ret' = 0
  /\ IF stack = <<>>
     THEN /\ tree' = Append(tree, ret)
          /\ rootIndex' = rootIndex + 1
          /\ UNCHANGED <<nodes, stack>>
     ELSE /\ nodes' = addChild(nodes, stack[Len(stack)].node, ret)
          /\ stack' = [stack EXCEPT ![Len(stack)].pos = @ + 1]
          /\ UNCHANGED <<tree, rootIndex>>
  /\ UNCHANGED <<entry, untitled, listing, interrupted,
                 apiKey, options, pc, exitCode, rootItems, fetch, outstanding,
                 calls, nextId, warnings, errors, rendered, totalNodesProcessed>>

\* after its last child the activation waits for a promise that never settles
LoopStep_neverReturns ==
  /\ pc = "roots"
  /\ stack # <<>>
  /\ ret = 0
  /\ LET top == stack[Len(stack)] IN
     /\ top.state = "loop"
     /\ IF top.pos <= Len(top.items)
        THEN buildTreeRecursively(top.items[top.pos], top.depth + 1)
        ELSE UNCHANGED <<stack, ret, nodes, totalNodesProcessed, fetch, outstanding>>
  /\ UNCHANGED <<entry, untitled, listing, interrupted,
                 apiKey, options, pc, exitCode, rootItems, rootIndex, tree,
                 calls, nextId, warnings, errors, rendered>>

\* for (const page of pages) / for (const child of children): the next recursive
\* call, or return node after the last one
LoopStep ==
  /\ pc = "roots"
  /\ stack # <<>>
  /\ ret = 0
  /\ LET top == stack[Len(stack)] IN
     /\ top.state = "loop"
     /\ IF top.pos <= Len(top.items)
        THEN buildTreeRecursively(top.items[top.pos], top.depth + 1)
        ELSE /\ stack' = SubSeq(stack, 1, Len(stack) - 1)
             /\ ret' = top.node
             /\ UNCHANGED <<nodes, totalNodesProcessed, fetch, outstanding>>
  /\ UNCHANGED <<entry, untitled, listing, interrupted,
                 apiKey, options, pc, exitCode, rootItems, rootIndex, tree,
                 calls, nextId, warnings, errors, rendered>>

(***************************************************************************)
(* fetchDatabasePages.                                                     *)
(***************************************************************************)
\* the rows pushed in reverse order
DatabasePagesOf_reversed(results) ==
  [j \in 1..Len(results) |->
    [id |-> results[Len(results) + 1 - j].id,
     title |-> getPageTitle(results[Len(results) + 1 - j]), type |-> "page",
     url |-> IF IncludeUrls THEN results[Len(results) + 1 - j].url ELSE null]]

\* the array pages of fetchDatabasePages after a successful response
DatabasePagesOf(results) ==
  [j \in 1..Len(results) |->
    [id |-> results[j].id, title |-> getPageTitle(results[j]), type |-> "page",
     url |-> IF IncludeUrls THEN results[j].url ELSE null]]

\* the listing function returns items to the loop of the top activation
ReturnItems(items) ==
  [stack EXCEPT ![Len(stack)] = [@ EXCEPT !.state = "loop", !.items = items, !.pos = 1]]

\* the catch block rethrows: the failure reaches the catch block of the main function
fetchDatabasePagesCatch_rethrows ==
  /\ FatalCatch
  /\ UNCHANGED <<stack, warnings>>

\* fetchDatabasePages: the catch block
fetchDatabasePagesCatch ==
  /\ warnings' = warnings + 1
  /\ stack' = ReturnItems(<<>>)
  /\ UNCHANGED <<pc, exitCode, errors>>

\* fetchDatabasePages: notion.databases.query answers
fetchDatabasePagesResume ==
  /\ pc = "roots"
  /\ stack # <<>>
  /\ LET top == stack[Len(stack)]
         call == Call("query", top.id, undefined) IN
     /\ top.state = "fetchDatabasePages"
     /\ call \in outstanding
     /\ outstanding' = outstanding \ {call}
     /\ \/ /\ apiKey
           /\ \E sh \in SeqsUpTo(RowShapes, Remaining) :
              \E has_more \in MayHaveMore(Len(sh), 1) :
                LET results == RemoteObjects(sh, "page") IN
                /\ calls' = Append(calls, Answered(call, TRUE, results, has_more))
                /\ nextId' = nextId + Len(sh)
                /\ stack' = ReturnItems(DatabasePagesOf(results))
           /\ UNCHANGED <<pc, exitCode, errors, warnings>>
        \/ /\ calls' = Append(calls, Answered(call, FALSE, <<>>, FALSE))
           /\ fetchDatabasePagesCatch
           /\ UNCHANGED nextId
  /\ UNCHANGED <<entry, untitled, listing, interrupted,
                 apiKey, options, rootItems, rootIndex, tree, nodes, fetch, ret,
                 rendered, totalNodesProcessed>>

(***************************************************************************)
(* fetchPageChildren.                                                      *)
(***************************************************************************)
\* the catch block drops the children of the listing pages already read
fetchPageChildrenCatch_dropsChildren ==
  /\ warnings' = warnings + 1
  /\ stack' = ReturnItems(<<>>)
  /\ fetch' = NoFetch
  /\ UNCHANGED <<pc, exitCode, errors>>

\* fetchPageChildren: the outer catch block; return children follows it
fetchPageChildrenCatch ==
  /\ warnings' = warnings + 1
  /\ stack' = ReturnItems(fetch.children)
  /\ fetch' = NoFetch
  /\ UNCHANGED <<pc, exitCode, errors>>

\* a failed listing call is issued again with the same cursor
fetchPageChildrenResume_retries ==
  /\ pc = "roots"
  /\ fetch.active
  /\ fetch.state = "list"
  /\ LET call == Call("list", fetch.pageId, fetch.cursor) IN
     /\ call \in outstanding
     /\ \/ /\ apiKey
           /\ outstanding' = outstanding \ {call}
           /\ \E sh \in SeqsUpTo(BlockShapes, Remaining) :
              \E has_more \in MayHaveMore(Len(sh), Remaining - Len(sh)) :
                LET results == RemoteBlocks(sh) IN
                /\ fetch.cursor # undefined => Len(sh) >= 1
                /\ calls' = Append(calls, Answered(call, TRUE, results, has_more))
                /\ nextId' = nextId + Len(sh)
                /\ fetch' = [fetch EXCEPT !.state = "blocks", !.results = results,
                               !.pos = 1, !.has_more = has_more,
                               !.next_cursor =
                                 Answered(call, TRUE, results, has_more).next_cursor]
           /\ UNCHANGED <<pc, exitCode, errors, warnings, stack>>
        \/ /\ calls' = Append(calls, Answered(call, FALSE, <<>>, FALSE))
           /\ warnings' = warnings + 1
           /\ UNCHANGED <<outstanding, fetch, stack, pc, exitCode, errors, nextId>>
  /\ UNCHANGED <<entry, untitled, listing, interrupted,
                 apiKey, options, rootItems, rootIndex, tree, nodes, ret,
                 rendered, totalNodesProcessed>>

\* fetchPageChildren: notion.blocks.children.list answers
fetchPageChildrenResume ==
  /\ pc = "roots"
  /\ fetch.active
  /\ fetch.state = "list"
  /\ LET call == Call("list", fetch.pageId, fetch.cursor) IN
     /\ call \in outstanding
     /\ outstanding' = outstanding \ {call}
     /\ \/ /\ apiKey
           /\ \E sh \in SeqsUpTo(BlockShapes, Remaining) :
              \E has_more \in MayHaveMore(Len(sh), Remaining - Len(sh)) :
                LET results == RemoteBlocks(sh) IN
                /\ fetch.cursor # undefined => Len(sh) >= 1
                /\ calls' = Append(calls, Answered(call, TRUE, results, has_more))
                /\ nextId' = nextId + Len(sh)
                /\ fetch' = [fetch EXCEPT !.state = "blocks", !.results = results,
                               !.pos = 1, !.has_more = has_more,
                               !.next_cursor =
                                 Answered(call, TRUE, results, has_more).next_cursor]
           /\ UNCHANGED <<pc, exitCode, errors, warnings, stack>>
        \/ /\ calls' = Append(calls, Answered(call, FALSE, <<>>, FALSE))
           /\ fetchPageChildrenCatch
           /\ UNCHANGED nextId
  /\ UNCHANGED <<entry, untitled, listing, interrupted,
                 apiKey, options, rootItems, rootIndex, tree, nodes, ret,
                 rendered, totalNodesProcessed>>

\* the item children.push receives for a child_page or child_database block
ChildItem(block, url) ==
  [id |-> block.id, title |-> block.title,
   type |-> IF block.type = "child_page" THEN "page" ELSE "database",
   url |-> url]

\* the detail fetch of a block: pages.retrieve or databases.retrieve
RetrieveCall(block) ==
  Call(IF block.type = "child_page" THEN "pages.retrieve" ELSE "databases.retrieve",
       block.id, undefined)

\* the loop stops after the first listing page
HasMore_firstPageOnly(response) == FALSE

\* while (hasMore): the loop goes round after the blocks of one listing page
HasMore(response) == response.has_more

\* the await of the detail fetch missing: the loop goes on while the call is pending
fetchPageChildrenBlock_noAwait ==
  /\ pc = "roots"
  /\ fetch.active
  /\ fetch.state = "blocks"
  /\ IF fetch.pos <= Len(fetch.results)
     THEN LET block == fetch.results[fetch.pos] IN
          IF block.type \in {"child_page", "child_database"}
          THEN /\ outstanding' = IF IncludeUrls THEN outstanding \cup {RetrieveCall(block)}
                                 ELSE outstanding
               /\ fetch' = [fetch EXCEPT
                              !.children = Append(@, ChildItem(block, null)),
                              !.pos = @ + 1]
               /\ UNCHANGED stack
          ELSE /\ fetch' = [fetch EXCEPT !.pos = @ + 1]
               /\ UNCHANGED <<outstanding, stack>>
     ELSE IF HasMore(fetch)
          THEN /\ fetch' = [fetch EXCEPT !.hasMore = TRUE, !.cursor = fetch.next_cursor,
                              !.state = "list"]
               /\ outstanding' = outstanding
                                   \cup {Call("list", fetch.pageId, fetch.next_cursor)}
               /\ UNCHANGED stack
          ELSE /\ stack' = ReturnItems(fetch.children)
               /\ fetch' = NoFetch
               /\ UNCHANGED outstanding
  /\ UNCHANGED <<entry, untitled, listing, interrupted,
                 apiKey, options, pc, exitCode, rootItems, rootIndex, tree, nodes,
                 ret, calls, nextId, warnings, errors, rendered, totalNodesProcessed>>

\* fetchPageChildren: one round of for (const block of response.results), or the
\* end of the while body after the last block
fetchPageChildrenBlock ==
  /\ pc = "roots"
  /\ fetch.active
  /\ fetch.state = "blocks"
  /\ IF fetch.pos <= Len(fetch.results)
     THEN LET block == fetch.results[fetch.pos] IN
          IF block.type \in {"child_page", "child_database"}
          THEN IF IncludeUrls
               THEN /\ outstanding' = outstanding \cup {RetrieveCall(block)}
                    /\ fetch' = [fetch EXCEPT !.state = "retrieve"]
                    /\ UNCHANGED stack
               ELSE /\ fetch' = [fetch EXCEPT
                                   !.children = Append(@, ChildItem(block, null)),
                                   !.pos = @ + 1]
                    /\ UNCHANGED <<outstanding, stack>>
          ELSE /\ fetch' = [fetch EXCEPT !.pos = @ + 1]
               /\ UNCHANGED <<outstanding, stack>>
     ELSE IF HasMore(fetch)
          THEN /\ fetch' = [fetch EXCEPT !.hasMore = TRUE, !.cursor = fetch.next_cursor,
                              !.state = "list"]
               /\ outstanding' = outstanding
                                   \cup {Call("list", fetch.pageId, fetch.next_cursor)}
               /\ UNCHANGED stack
          ELSE /\ stack' = ReturnItems(fetch.children)
               /\ fetch' = NoFetch
               /\ UNCHANGED outstanding
  /\ UNCHANGED <<entry, untitled, listing, interrupted,
                 apiKey, options, pc, exitCode, rootItems, rootIndex, tree, nodes,
                 ret, calls, nextId, warnings, errors, rendered, totalNodesProcessed>>

\* the inner catch block missing: the failure reaches the outer catch block
RetrieveCatch_propagates(block) ==
  /\ warnings' = warnings + 1
  /\ stack' = ReturnItems(fetch.children)
  /\ fetch' = NoFetch
  /\ UNCHANGED <<pc, exitCode, errors>>

\* the inner catch block: Ignore URL retrieval errors
RetrieveCatch(block) ==
  /\ fetch' = [fetch EXCEPT !.children = Append(@, ChildItem(block, null)),
                 !.pos = @ + 1, !.state = "blocks"]
  /\ UNCHANGED <<stack, warnings, pc, exitCode, errors>>

\* fetchPageChildren: notion.pages.retrieve / notion.databases.retrieve answers
fetchPageChildrenRetrieve ==
  /\ pc = "roots"
  /\ fetch.active
  /\ fetch.state = "retrieve"
  /\ LET block == fetch.results[fetch.pos]
         call == RetrieveCall(block) IN
     /\ call \in outstanding
     /\ outstanding' = outstanding \ {call}
     /\ \/ /\ apiKey
           /\ calls' = Append(calls, Answered(call, TRUE, <<>>, FALSE))
           /\ fetch' = [fetch EXCEPT
                          !.children = Append(@, ChildItem(block, UrlOf(block.id))),
                          !.pos = @ + 1, !.state = "blocks"]
           /\ UNCHANGED <<stack, warnings, pc, exitCode, errors>>
        \/ /\ calls' = Append(calls, Answered(call, FALSE, <<>>, FALSE))
           /\ RetrieveCatch(block)
  /\ UNCHANGED <<entry, untitled, listing, interrupted,
                 apiKey, options, rootItems, rootIndex, tree, nodes, ret,
                 nextId, rendered, totalNodesProcessed>>

(***************************************************************************)
(* The end of the main function.                                           *)
(***************************************************************************)
\* the finished tree is displayed and exported; the process then ends
Output ==
  /\ pc = "output"
  /\ rendered' = TRUE
  /\ pc' = "exit"
  /\ UNCHANGED <<entry, untitled, listing, interrupted,
                 apiKey, options, exitCode, rootItems, rootIndex, tree, nodes,
                 stack, fetch, ret, outstanding, calls, nextId, warnings, errors,
                 totalNodesProcessed>>

(***************************************************************************)
(* Progress reporting: what each step of the traversal does to the globals *)
(* of the loading animation.                                               *)
(***************************************************************************)
\* the main function starts the spinner; fetchRootItems sets its first message
StartProgress ==
  spinner' =
    IF pc' = "exit" THEN spinner
    ELSE updateSpinnerMessage(
           startSpinner(spinner, "Searching for workspace pages and databases..."),
           "Searching for pages...")

\* fetchRootItems reports the error and the catch block of the main function
\* stops the spinner
FatalProgress ==
  stopSpinner(updateSpinnerMessage(spinner, "Error finding root items"))

\* fetchRootItems after the page search
SearchPagesProgress ==
  spinner' =
    IF pc' = "exit" THEN FatalProgress
    ELSE updateSpinnerMessage(
           IF calls'[Len(calls')].results # <<>>
           THEN updateSpinnerMessage(spinner, "Found pages...")
           ELSE spinner,
           "Searching for databases...")

\* fetchRootItems after the database search, then the main function: stopSpinner(),
\* the counters reset, startSpinner('Building tree structure...')
SearchDatabasesProgress ==
  spinner' =
    IF pc' = "exit" THEN FatalProgress
    ELSE LET found == IF calls'[Len(calls')].results # <<>>
                      THEN updateSpinnerMessage(spinner, "Found pages and databases...")
                      ELSE spinner
             reset == [stopSpinner(found) EXCEPT !.processedItems = 0,
                                                 !.totalItems = Len(rootItems')]
         IN startSpinner(reset, "Building tree structure...")

\* the messages of buildTreeRecursively(item, depth) and of the listing function it
\* calls, up to the first await
buildTreeProgress(s, item, depth) ==
  LET counted == IF totalNodesProcessed' % 5 = 0
                 THEN updateSpinnerMessage(s, "Building tree...")
                 ELSE s
  IN IF DepthReached(depth) THEN counted
     ELSE IF item.type = "database"
     THEN updateSpinnerMessage(counted, "Fetching pages from database...")
     ELSE IF item.type = "page"
     THEN updateSpinnerMessage(counted, "Fetching children for page...")
     ELSE counted

\* the loop of the main function
NextRootProgress ==
  spinner' =
    IF rootIndex <= Len(rootItems)
    THEN buildTreeProgress(updateSpinnerMessage(spinner, "Processing..."),
                           rootItems[rootIndex], 0)
    ELSE stopSpinner(spinner)

\* updateProgressCounter(i + 1) after a root is pushed
ReturnToCallerProgress ==
  spinner' = IF stack = <<>> THEN updateProgressCounter(spinner, rootIndex)
             ELSE spinner

\* the loop of a parent activation
LoopStepProgress ==
  spinner' =
    LET top == stack[Len(stack)] IN
    IF top.pos <= Len(top.items)
    THEN buildTreeProgress(spinner, top.items[top.pos], top.depth + 1)
    ELSE spinner

\* fetchDatabasePages after its response: the message of the try block
fetchDatabasePagesProgress ==
  spinner' = IF calls'[Len(calls')].ok
             THEN updateSpinnerMessage(spinner, "Found pages in database")
             ELSE spinner

\* fetchPageChildren at the end of a listing page
fetchPageChildrenProgress ==
  spinner' =
    IF fetch.pos <= Len(fetch.results) THEN spinner
    ELSE IF fetch'.active
    THEN updateSpinnerMessage(spinner, "Fetching more children for page...")
    ELSE IF Len(fetch.children) > 0
    THEN updateSpinnerMessage(spinner, "Found child pages/databases in page")
    ELSE spinner

\* the exports of the export script run under a spinner of their own; the default
\* console format of the command line does not
OutputProgress ==
  spinner' = IF entry = "cli" THEN spinner
             ELSE stopSpinner(startSpinner(spinner, "Generating JSON export..."))

(***************************************************************************)
(* The timer of the spinner and the SIGINT handler.                        *)
(***************************************************************************)
\* the callback also bumps the node counter of buildTreeRecursively
Tick_countsNodes ==
  /\ spinner.isSpinnerActive
  /\ outstanding # {}
  /\ pc # "exit"
  /\ spinner' = [spinner EXCEPT !.frameIndex = (@ + 1) % frames]
  /\ totalNodesProcessed' = totalNodesProcessed + 1
  /\ UNCHANGED <<entry, untitled, listing, interrupted, apiKey, options, pc, exitCode,
                 rootItems, rootIndex, tree, nodes, stack, fetch, ret, outstanding,
                 calls, nextId, warnings, errors, rendered, quiet, first>>

\* the setInterval callback of startSpinner: it runs while the main function awaits
Tick ==
  /\ spinner.isSpinnerActive
  /\ outstanding # {}
  /\ pc # "exit"
  /\ spinner' = [spinner EXCEPT !.frameIndex = (@ + 1) % frames]
  /\ UNCHANGED <<vars, quiet, first>>

\* the handler stops the spinner and returns: the process goes on
Sigint_keepsRunning ==
  /\ pc # "exit"
  /\ outstanding # {}
  /\ interrupted' = TRUE
  /\ UNCHANGED <<entry, untitled, listing, pc, exitCode,
                 apiKey, options, rootItems, rootIndex, tree, nodes, stack, fetch, ret,
                 outstanding, calls, nextId, warnings, errors, rendered,
                 totalNodesProcessed>>

\* process.on('SIGINT'): process.exit(0).  The signal is delivered while the main
\* function awaits a remote call; the pending call is abandoned
Sigint ==
  /\ pc # "exit"
  /\ outstanding # {}
  /\ interrupted' = TRUE
  /\ pc' = "exit"
  /\ exitCode' = 0
  /\ UNCHANGED <<entry, untitled, listing,
                 apiKey, options, rootItems, rootIndex, tree, nodes, stack, fetch, ret,
                 outstanding, calls, nextId, warnings, errors, rendered,
                 totalNodesProcessed>>

\* process.on('SIGINT'): stopSpinner() before the exit
SigintProgress == spinner' = stopSpinner(spinner)

(***************************************************************************)
(* The program.                                                            *)
(***************************************************************************)
\* the steps of the traversal, whatever they report
Traversal ==
  \/ Start
  \/ SearchPagesResume
  \/ SearchDatabasesResume
  \/ NextRoot
  \/ ReturnToCaller
  \/ LoopStep
  \/ fetchDatabasePagesResume
  \/ fetchPageChildrenResume
  \/ fetchPageChildrenBlock
  \/ fetchPageChildrenRetrieve
  \/ Output

\* the steps of the main function and of the functions it calls
Run ==
  /\ \/ Start /\ StartProgress
     \/ SearchPagesResume /\ SearchPagesProgress
     \/ SearchDatabasesResume /\ SearchDatabasesProgress
     \/ NextRoot /\ NextRootProgress
     \/ ReturnToCaller /\ ReturnToCallerProgress
     \/ LoopStep /\ LoopStepProgress
     \/ fetchDatabasePagesResume /\ fetchDatabasePagesProgress
     \/ fetchPageChildrenResume /\ UNCHANGED spinner
     \/ fetchPageChildrenBlock /\ fetchPageChildrenProgress
     \/ fetchPageChildrenRetrieve /\ UNCHANGED spinner
     \/ Output /\ OutputProgress
  /\ UNCHANGED <<quiet, first>>

\* the signal handler
Interrupt == Sigint /\ SigintProgress /\ UNCHANGED <<quiet, first>>

Next == Run \/ Interrupt

\* the program with the timer of its spinner
NextSpinner == Run \/ Interrupt \/ Tick

allvars == <<vars, quiet, spinner, first>>

Spec == Init /\ [][Next]_allvars

SpecTitles == InitTitles /\ [][Next]_allvars

SpecRoots == InitRoots /\ [][Next]_allvars

SpecSpinner == InitSpinner /\ [][NextSpinner]_allvars

\* the response of an answered call
Response(c) == [ok |-> c.ok, results |-> c.results, has_more |-> c.has_more]

\* the remote store answers the second run as it answered the first: the k-th call
\* gets the k-th recorded response
Replays ==
  (first.done /\ calls' # calls) =>
    /\ Len(calls') <= Len(first.calls)
    /\ Response(calls'[Len(calls')]) = Response(first.calls[Len(calls')])

\* the command line is started on the same workspace after the export script has
\* ended: its module-level state is fresh, the first run is kept for the comparison
Rerun ==
  /\ ~first.done
  /\ entry = "export"
  /\ pc = "exit"
  /\ first' = [done |-> TRUE, calls |-> calls, nodes |-> nodes, tree |-> tree,
               rendered |-> rendered]
  /\ entry' = "cli"
  /\ pc' = "start"
  /\ exitCode' = 0
  /\ rootItems' = <<>>
  /\ rootIndex' = 1
  /\ tree' = <<>>
  /\ nodes' = <<>>
  /\ stack' = <<>>
  /\ fetch' = NoFetch
  /\ ret' = 0
  /\ outstanding' = {}
  /\ calls' = <<>>
  /\ nextId' = 1
  /\ warnings' = 0
  /\ errors' = 0
  /\ rendered' = FALSE
  /\ totalNodesProcessed' = 0
  /\ spinner' = Spinner0
  /\ UNCHANGED <<untitled, listing, interrupted, apiKey, options, quiet>>

\* the export script, then the command line against the same responses
NextTwin == (Run /\ Replays) \/ Rerun

SpecTwin == InitTwin /\ [][NextTwin]_allvars

\* the event loop runs every continuation that is ready, and the remote store
\* answers or fails every call; nothing obliges a signal to arrive
SpecFair == Spec /\ WF_allvars(Run)

(***************************************************************************)
(* Properties.                                                             *)
(***************************************************************************)
\* the main function has left its loop: the tree is finished
Built == pc = "output" \/ rendered

\* the indices of the nodes created so far
NodeIds == 1..Len(nodes)

\* the set of elements of a sequence
Range(seq) == {seq[j] : j \in 1..Len(seq)}

RECURSIVE NodesAtDepth(_)
\* the nodes of the tree at depth k, the roots being at depth 0
NodesAtDepth(k) ==
  IF k = 0 THEN Range(tree)
  ELSE UNION {Range(nodes[n].children) : n \in NodesAtDepth(k - 1)}

\* C1: for every configured maximum depth d >= 0, the finished tree of
\* generateNotionTree has no node deeper than d (roots at depth 0), and every node
\* at depth exactly d has no children.
C1_DepthBound ==
  (entry = "cli" /\ Built) =>
    /\ NodesAtDepth(options.maxDepth + 1) = {}
    /\ \A n \in NodesAtDepth(options.maxDepth) : nodes[n].children = <<>>

\* C1 witness: a finished tree cut at depth 1, whose depth-1 nodes are a page or a
\* database the traversal would otherwise have expanded
C1_Witness ==
  /\ entry = "cli" /\ rendered /\ options.maxDepth = 1
  /\ NodesAtDepth(1) # {}
  /\ \A n \in NodesAtDepth(1) : nodes[n].children = <<>>

\* C2: every TreeNode has a non-empty title, however it was seeded (root page, root
\* database, database row, child_page or child_database block).
C2_TitleNeverEmpty == \A n \in NodeIds : nodes[n].title # ""

\* the answered calls op(id) that failed / that exist
Failed(op, id) ==
  \E k \in 1..Len(calls) : calls[k].op = op /\ calls[k].id = id /\ ~calls[k].ok
Called(op, id) ==
  \E k \in 1..Len(calls) : calls[k].op = op /\ calls[k].id = id

\* buildTreeRecursively has returned the node n
Complete(n) == n \in NodeIds /\ \A i \in 1..Len(stack) : stack[i].node # n

\* the remote identifiers of the children of node n, in order
ChildIds(n) == [j \in 1..Len(nodes[n].children) |-> nodes[nodes[n].children[j]].id]

\* this step answers a call op with a failure
FailsNow(op) ==
  /\ Len(calls') = Len(calls) + 1
  /\ calls'[Len(calls')].op = op
  /\ ~calls'[Len(calls')].ok

\* C3 (state part): a database whose row listing failed has no children, and the
\* failure never reaches the fatal handler.
C3_FailedDatabaseIsLeaf ==
  \A n \in NodeIds : Failed("query", nodes[n].id) =>
    /\ nodes[n].children = <<>>
    /\ errors = 0 /\ exitCode = 0

\* C3 (step part): the step in which the row listing fails leaves the traversal in
\* the state a successful listing of zero rows leaves it in; only the warning differs.
C3_FailureActsAsNoRows ==
  FailsNow("query") =>
    /\ stack' = ReturnItems(DatabasePagesOf(<<>>))
    /\ warnings' = warnings + 1
    /\ UNCHANGED <<pc, exitCode, errors, rootItems, rootIndex, tree, nodes, fetch, ret,
                   nextId, rendered, totalNodesProcessed>>

\* C3: when a database's row listing fails, its node ends with children = [], the
\* failure is not propagated, the run goes on, and the rest of the traversal is what
\* it would have been had the database had no rows.
C3_DatabaseFailureIsolated ==
  []C3_FailedDatabaseIsLeaf /\ [][C3_FailureActsAsNoRows]_vars

\* C3 witness: a finished, rendered tree holding a database whose row listing failed
\* beside a sibling root that was expanded to a child
C3_Witness ==
  /\ rendered /\ exitCode = 0 /\ Len(tree) = 2
  /\ \E n \in Range(tree) : Failed("query", nodes[n].id) /\ nodes[n].children = <<>>
  /\ \E n \in Range(tree) : nodes[n].children # <<>>

\* whether a block becomes a child: child_page or child_database
IsChildBlock(block) == block.type \in {"child_page", "child_database"}

\* the ids of a sequence of remote objects
IdsOf(seq) == [j \in 1..Len(seq) |-> seq[j].id]

RECURSIVE ListedUpTo(_, _)
\* the child_page / child_database blocks the store listed for the page id in its
\* successful responses among the first k answered calls, in response order
ListedUpTo(id, k) ==
  IF k = 0 THEN <<>>
  ELSE ListedUpTo(id, k - 1) \o
         (IF calls[k].op = "list" /\ calls[k].id = id /\ calls[k].ok
          THEN IdsOf(SelectSeq(calls[k].results, IsChildBlock))
          ELSE <<>>)
Listed(id) == ListedUpTo(id, Len(calls))

\* the number of answered calls that satisfy Test
Count(Test(_)) == Cardinality({k \in 1..Len(calls) : Test(calls[k])})

\* C4 as stated: a page whose child-block listing failed on any call of the pagination
\* loop, the first or a later one, ends with an empty children list.
C4_FailedPageIsLeaf ==
  \A n \in NodeIds : (Complete(n) /\ Failed("list", nodes[n].id)) =>
    nodes[n].children = <<>>

\* C4 amended: a page whose child-block listing failed ends with the children of the
\* listing pages read before the failure (none when the first call failed); every
\* listing failure emits one warning and none reaches the fatal handler.
C4_FailedPageKeepsEarlierChildren ==
  /\ \A n \in NodeIds : (Complete(n) /\ Failed("list", nodes[n].id)) =>
       /\ ChildIds(n) = Listed(nodes[n].id)
       /\ (\E k \in 1..Len(calls) :
             /\ calls[k].op = "list" /\ calls[k].id = nodes[n].id
             /\ ~calls[k].ok /\ calls[k].cursor = undefined)
          => nodes[n].children = <<>>
       /\ errors = 0 /\ exitCode = 0
  /\ warnings = Count(LAMBDA c : c.op \in {"list", "query"} /\ ~c.ok)

\* C4 witness: a rendered tree with a page whose second listing call failed and which
\* kept the child of the first listing page
C4_Witness ==
  /\ rendered /\ warnings = 1
  /\ \E n \in NodeIds :
       /\ Complete(n) /\ nodes[n].children # <<>>
       /\ \E k \in 1..Len(calls) :
            /\ calls[k].op = "list" /\ calls[k].id = nodes[n].id
            /\ ~calls[k].ok /\ calls[k].cursor # undefined

\* one of the two root-discovery searches failed
SearchFailed ==
  \E k \in 1..Len(calls) :
    calls[k].op \in {"search.page", "search.database"} /\ ~calls[k].ok

\* the calls of root discovery
IsSearch(c) == c.op \in {"search.page", "search.database"}

\* C5: a failed root discovery (a failed search, or a missing credential) aborts the
\* run in either entry point: no expansion call is issued afterwards, no tree is
\* rendered or exported, and the process ends with a non-zero exit status and an
\* error message.
C5_RootFailureIsFatal ==
  (SearchFailed \/ ~apiKey) =>
    /\ SearchFailed => pc = "exit"
    /\ ~rendered /\ nodes = <<>>
    /\ \A k \in 1..Len(calls) : IsSearch(calls[k])
    /\ \A c \in outstanding : IsSearch(c)
    /\ pc = "exit" => (exitCode # 0 /\ errors > 0)

\* the detail fetches
IsRetrieve(c) == c.op \in {"pages.retrieve", "databases.retrieve"}

\* the item with this id and no url is held by the running fetchPageChildren, by the
\* loop of an activation, or by a node that is the child of a node
KeptWithoutUrl(id) ==
  \/ \E j \in 1..Len(fetch.children) :
       fetch.children[j].id = id /\ fetch.children[j].url = null
  \/ \E i \in 1..Len(stack) : \E j \in 1..Len(stack[i].items) :
       stack[i].items[j].id = id /\ stack[i].items[j].url = null
  \/ \E p \in NodeIds : \E c \in Range(nodes[p].children) :
       nodes[c].id = id /\ nodes[c].url = null

\* C6 (state part): a child whose detail fetch failed is kept, without a url, from
\* the failure on to its place among its parent's children; nothing reaches the
\* fatal handler.
C6_FailedDetailKeepsChild ==
  \A k \in 1..Len(calls) : (IsRetrieve(calls[k]) /\ ~calls[k].ok) =>
    /\ KeptWithoutUrl(calls[k].id)
    /\ \A n \in NodeIds : nodes[n].id = calls[k].id => nodes[n].url = null
    /\ errors = 0 /\ exitCode = 0

\* C6 (step part): the step in which the detail fetch fails emits no warning and
\* leaves fetchPageChildren where a successful fetch leaves it, but for the url of
\* the child just pushed.
C6_FailureActsAsSuccess ==
  (FailsNow("pages.retrieve") \/ FailsNow("databases.retrieve")) =>
    LET block == fetch.results[fetch.pos]
        success == [fetch EXCEPT
                      !.children = Append(@, ChildItem(block, UrlOf(block.id))),
                      !.pos = @ + 1, !.state = "blocks"]
    IN /\ fetch' = [success EXCEPT !.children[Len(success.children)].url = null]
       /\ UNCHANGED <<warnings, errors, pc, exitCode, stack, nodes, tree, ret,
                      rootItems, rootIndex, nextId, rendered>>

\* C6: with URL inclusion enabled, a failing detail fetch for a child block leaves
\* the child in its parent's children with url null, emits no warning and raises no
\* error, and the rest of the listing and the child's expansion go on as after a
\* successful fetch.
C6_DetailFailureAbsorbed ==
  []C6_FailedDetailKeepsChild /\ [][C6_FailureActsAsSuccess]_vars

\* C6 witness: a rendered tree in which the first of two child blocks lost its detail
\* fetch, has no url, was itself expanded, and is followed by its sibling
C6_Witness ==
  /\ rendered /\ warnings = 0
  /\ \E p \in NodeIds :
       /\ Len(nodes[p].children) = 2
       /\ LET c == nodes[p].children[1] IN
            /\ Failed("pages.retrieve", nodes[c].id)
            /\ nodes[c].url = null
            /\ Called("list", nodes[c].id)

\* C7: with URL inclusion disabled no node carries a url (roots, database rows and
\* child blocks alike) and no detail fetch is ever issued.
C7_NoUrlsNoDetailFetches ==
  (entry = "cli" /\ ~options.includeUrls) =>
    /\ \A n \in NodeIds : nodes[n].url = null
    /\ \A k \in 1..Len(calls) : ~IsRetrieve(calls[k])
    /\ \A c \in outstanding : ~IsRetrieve(c)

\* C7 witness: a rendered tree built without urls that holds a root database, a row
\* of it, and a child block of the row
C7_Witness ==
  /\ entry = "cli" /\ ~options.includeUrls /\ rendered
  /\ \E r \in Range(tree) :
       /\ nodes[r].type = "database"
       /\ \E row \in Range(nodes[r].children) : nodes[row].children # <<>>

\* the answered child-block listings of the page id, in call order
ListCalls(id) == SelectSeq(calls, LAMBDA c : c.op = "list" /\ c.id = id)

\* the kind of node a block becomes
KindOf(block) == IF block.type = "child_page" THEN "page" ELSE "database"

RECURSIVE ListedKindsUpTo(_, _)
\* the node kinds of the blocks of Listed(id), in the same order
ListedKindsUpTo(id, k) ==
  IF k = 0 THEN <<>>
  ELSE ListedKindsUpTo(id, k - 1) \o
         (IF calls[k].op = "list" /\ calls[k].id = id /\ calls[k].ok
          THEN LET kept == SelectSeq(calls[k].results, IsChildBlock)
               IN [j \in 1..Len(kept) |-> KindOf(kept[j])]
          ELSE <<>>)

\* C8: for an expanded page whose child-block listing never fails, the listing is
\* called with the returned cursor until a response reports hasMore = false, and the
\* page's children are exactly the child_page / child_database blocks of all the
\* response pages; blocks of other kinds produce no node.
C8_PaginationConsumed ==
  \A n \in NodeIds :
    (Complete(n) /\ Called("list", nodes[n].id) /\ ~Failed("list", nodes[n].id)) =>
      LET L == ListCalls(nodes[n].id) IN
      /\ L[1].cursor = undefined
      /\ \A j \in 1..(Len(L) - 1) : L[j].has_more /\ L[j + 1].cursor = L[j].next_cursor
      /\ ~L[Len(L)].has_more
      /\ ChildIds(n) = Listed(nodes[n].id)
      /\ [j \in 1..Len(nodes[n].children) |-> nodes[nodes[n].children[j]].type]
           = ListedKindsUpTo(nodes[n].id, Len(calls))

\* C8 witness: a finished page with two successful listing pages, the first holding
\* only a block of another kind, whose single child comes from the second page
C8_Witness ==
  \E n \in NodeIds :
    /\ Complete(n) /\ ~Failed("list", nodes[n].id)
    /\ Len(ListCalls(nodes[n].id)) = 2
    /\ Len(ListCalls(nodes[n].id)[1].results) = 1
    /\ ~IsChildBlock(ListCalls(nodes[n].id)[1].results[1])
    /\ Len(nodes[n].children) = 1

\* the answered row listings of the database id, in call order
QueryCalls(id) == SelectSeq(calls, LAMBDA c : c.op = "query" /\ c.id = id)

\* the run has no depth bound
Unbounded == entry = "export" \/ options.maxDepth = Infinity

RECURSIVE DiscoveredUpTo(_, _)
\* the children the store reported for the item id among the first k answered
\* calls, in the order of the responses
DiscoveredUpTo(id, k) ==
  IF k = 0 THEN <<>>
  ELSE DiscoveredUpTo(id, k - 1) \o
         (IF calls[k].id = id /\ calls[k].ok /\ calls[k].op = "list"
          THEN IdsOf(SelectSeq(calls[k].results, IsChildBlock))
          ELSE IF calls[k].id = id /\ calls[k].ok /\ calls[k].op = "query"
          THEN IdsOf(calls[k].results)
          ELSE <<>>)

\* seq is an initial part of whole
IsPrefix(seq, whole) ==
  Len(seq) <= Len(whole) /\ seq = SubSeq(whole, 1, Len(seq))

\* C10 (state part): the children of a node are, in order, an initial part of the
\* items the store listed for it.
C10_ChildrenInListingOrder ==
  \A n \in NodeIds : IsPrefix(ChildIds(n), DiscoveredUpTo(nodes[n].id, Len(calls)))

\* C10 (step part): a step only appends to a children list.
C10_AppendOnly ==
  \A n \in NodeIds : IsPrefix(nodes[n].children, nodes'[n].children)

\* C10: the order of a node's children is the order in which the items were met in
\* the remote listing, earlier pagination pages first; no append reorders, inserts
\* before, or removes an appended sibling.
C10_ChildOrderPreserved ==
  []C10_ChildrenInListingOrder /\ [][C10_AppendOnly]_vars

\* C10 witness: a page whose two children come from two pagination pages, in the
\* order of the pages
C10_Witness ==
  \E n \in NodeIds :
    /\ Len(nodes[n].children) = 2
    /\ Len(ListCalls(nodes[n].id)) = 2
    /\ ChildIds(n) = IdsOf(ListCalls(nodes[n].id)[1].results)
                       \o IdsOf(ListCalls(nodes[n].id)[2].results)

(***************************************************************************)
(* Root discovery.                                                         *)
(***************************************************************************)
\* the ids of the workspace-level results of the k-th answered call
KeptIds(k) == IdsOf(SelectSeq(calls[k].results, LAMBDA r : r.parent = "workspace"))

\* the top-level items of the workspace in the order in which the workspace lists
\* them; each search reports its own kind in that order
WorkspaceRoots ==
  IF listing = "databases-first" THEN KeptIds(2) \o KeptIds(1)
  ELSE KeptIds(1) \o KeptIds(2)

\* the ids of the depth-0 array of the result
TreeIds == [j \in 1..Len(tree) |-> nodes[tree[j]].id]

\* C11 as stated: the depth-0 array is in the order in which the workspace lists its
\* roots, whatever their kinds: a database A listed before a page B gives [A, B].
C11_RootsInWorkspaceOrder == Built => TreeIds = WorkspaceRoots

\* C11: the depth-0 array holds the workspace-level pages in the order of the page
\* search, then the workspace-level databases in the order of the database search,
\* whatever the order in which the workspace lists them.
C11_RootsPagesThenDatabases == Built => TreeIds = KeptIds(1) \o KeptIds(2)

\* C11 witness: the workspace lists a database before a page, and the finished
\* depth-0 array is [page, database]
C11_Witness ==
  /\ rendered
  /\ listing = "databases-first"
  /\ Len(tree) = 2
  /\ nodes[tree[1]].type = "page" /\ nodes[tree[2]].type = "database"
  /\ WorkspaceRoots = <<nodes[tree[2]].id, nodes[tree[1]].id>>

(***************************************************************************)
(* The depth bound and the remote calls.                                   *)
(***************************************************************************)
\* the node whose activation of buildTreeRecursively created the node n: the node
\* that holds n as a child, or the caller that waits for n (0 for a root)
ParentOf(n) ==
  IF \E p \in NodeIds : n \in Range(nodes[p].children)
  THEN CHOOSE p \in NodeIds : n \in Range(nodes[p].children)
  ELSE IF \E i \in 2..Len(stack) : stack[i].node = n
  THEN stack[(CHOOSE i \in 2..Len(stack) : stack[i].node = n) - 1].node
  ELSE IF ret = n /\ stack # <<>> THEN stack[Len(stack)].node
  ELSE 0

RECURSIVE NodeDepth(_)
\* the depth of the node n, finished or not; the roots are at depth 0
NodeDepth(n) == IF ParentOf(n) = 0 THEN 0 ELSE 1 + NodeDepth(ParentOf(n))

\* every call issued so far, answered or not
Issued == {Call(calls[k].op, calls[k].id, calls[k].cursor) : k \in 1..Len(calls)}
            \cup outstanding

\* a child-listing call
IsListing(c) == c.op \in {"list", "query"}

\* the page with this id, not yet at the depth bound, listed the block b
ListedAboveBound(b) ==
  \E k \in 1..Len(calls) :
    /\ calls[k].op = "list" /\ calls[k].ok
    /\ \E j \in 1..Len(calls[k].results) : calls[k].results[j].id = b
    /\ \E n \in NodeIds : nodes[n].id = calls[k].id /\ NodeDepth(n) < options.maxDepth

\* C12: for a node at depth options.maxDepth no child-listing call is ever issued, and
\* no detail fetch for a child of it: every detail fetch is for a block listed by a
\* page above the bound.  With maxDepth 0 the only remote calls of the run are the
\* two root searches.
C12_NoCallsAtDepthBound ==
  entry = "cli" =>
    /\ \A n \in NodeIds : NodeDepth(n) = options.maxDepth =>
         /\ \A c \in Issued : IsListing(c) => c.id # nodes[n].id
         /\ nodes[n].children = <<>>
    /\ \A c \in Issued : IsListing(c) =>
         \E n \in NodeIds : nodes[n].id = c.id /\ NodeDepth(n) < options.maxDepth
    /\ \A c \in Issued : IsRetrieve(c) => ListedAboveBound(c.id)
    /\ options.maxDepth = 0 =>
         /\ \A c \in Issued : IsSearch(c)
         /\ Len(calls) <= 2

\* C12 witness: urls requested, depth bound 1: a finished tree with a root page, its
\* child page at depth 1 and a second root; the only calls were the two searches,
\* one listing of the first root and one detail fetch, and one listing of the second
C12_Witness ==
  /\ entry = "cli" /\ rendered /\ options.maxDepth = 1 /\ options.includeUrls
  /\ Len(tree) = 2
  /\ \E n \in NodeIds :
       /\ NodeDepth(n) = 1 /\ nodes[n].type = "page"
       /\ ~Called("list", nodes[n].id)
  /\ Len(calls) = 5

\* C12 witness with maxDepth 0: three roots rendered after the two searches alone
C12_WitnessZero ==
  /\ entry = "cli" /\ rendered /\ options.maxDepth = 0
  /\ Len(tree) = 3 /\ Len(calls) = 2

(***************************************************************************)
(* Progress reporting.                                                     *)
(***************************************************************************)
\* C13: progress reporting never affects the traversal.  Every run with the spinner
\* enabled, whatever the timer ticks between its remote calls, is step for step a run
\* of the traversal alone: the tree, the calls issued and the responses consumed
\* change exactly as the steps of the program without any progress state change
\* them, and a tick changes none of them.
C13_ProgressIsObservational == Start0 /\ [][Traversal \/ Sigint]_vars

\* C13 witness: a run with the spinner enabled that was ticked between its calls,
\* counted its roots and rendered a tree with a child
C13_Witness ==
  /\ ~Quiet /\ rendered
  /\ spinner.frameIndex >= 2
  /\ spinner.totalItems = 2 /\ spinner.processedItems = 2
  /\ Len(tree) = 2 /\ Len(nodes) = 3

(***************************************************************************)
(* Cancellation.                                                           *)
(***************************************************************************)
\* C14 (state part): once the SIGINT handler has run the process has ended, with the
\* call that was pending still unanswered and no tree rendered or exported.
C14_InterruptedHasExited ==
  interrupted => (pc = "exit" /\ exitCode = 0 /\ outstanding # {} /\ ~rendered)

\* C14 (step part): after the interrupt nothing happens any more: no call is issued
\* or answered, no node is created, nothing is rendered.
C14_NothingAfterInterrupt == interrupted => UNCHANGED vars

\* C14: after a SIGINT no further remote call is issued and the process terminates; a
\* call pending at the interrupt never leads to another call or to a tree being
\* rendered or exported.
C14_InterruptStopsTheRun ==
  []C14_InterruptedHasExited /\ [][C14_NothingAfterInterrupt]_vars

\* C14 witness: the run was interrupted in the middle of the traversal, with one
\* root finished and the listing of a child pending
C14_Witness ==
  /\ interrupted /\ pc = "exit"
  /\ Len(tree) = 1 /\ Len(stack) = 1
  /\ \E c \in outstanding : IsListing(c)
  /\ ~rendered

\* fetchRootItems has returned
RootsFound == pc \in {"roots", "output"} \/ rendered \/ (interrupted /\ Len(calls) >= 2)

\* the kinds of the root items: k pages, then databases
PagesThenDatabases(items, k) ==
  \A j \in 1..Len(items) : items[j].type = IF j <= k THEN "page" ELSE "database"

\* C15: root discovery issues exactly two search calls, for pages first and then for
\* databases; it keeps only the results whose parent is the workspace and returns
\* the kept pages in listing order followed by the kept databases in listing order;
\* a result with another parent never becomes a root.
C15_RootDiscovery ==
  /\ \A c \in outstanding : IsSearch(c) =>
       \/ c.op = "search.page" /\ calls = <<>>
       \/ c.op = "search.database" /\ Len(calls) = 1 /\ calls[1].op = "search.page"
  /\ \A k \in 1..Len(calls) :
       /\ k = 1 => calls[k].op = "search.page"
       /\ k = 2 => calls[k].op = "search.database"
       /\ k > 2 => ~IsSearch(calls[k])
  /\ RootsFound =>
       /\ Count(IsSearch) = 2
       /\ IdsOf(rootItems) = KeptIds(1) \o KeptIds(2)
       /\ PagesThenDatabases(rootItems, Len(KeptIds(1)))
       /\ \A k \in 1..2 : \A j \in 1..Len(calls[k].results) :
            calls[k].results[j].parent # "workspace" =>
              /\ \A i \in 1..Len(rootItems) : rootItems[i].id # calls[k].results[j].id
              /\ \A n \in Range(tree) : nodes[n].id # calls[k].results[j].id

\* C15 witness: the page search returned a nested page and a workspace page, the
\* database search a workspace database: the roots are the page, then the database
C15_Witness ==
  /\ rendered
  /\ Len(calls[1].results) = 2 /\ calls[1].results[1].parent = "nested"
  /\ Len(calls[2].results) = 1
  /\ IdsOf(rootItems) = <<calls[1].results[2].id, calls[2].results[1].id>>
  /\ TreeIds = IdsOf(rootItems)

(***************************************************************************)
(* The single traversal stream.                                            *)
(***************************************************************************)
RECURSIVE Preorder(_)
\* the nodes of the subtrees rooted at the nodes of seq, each node before its
\* children and each subtree before the next one
Preorder(seq) ==
  IF seq = <<>> THEN <<>>
  ELSE <<Head(seq)>> \o Preorder(nodes[Head(seq)].children) \o Preorder(Tail(seq))

\* the node created for the remote item id
NodeOf(id) == CHOOSE n \in NodeIds : nodes[n].id = id

\* the indices in the call history of the child-listing calls
ListingCalls == {k \in 1..Len(calls) : IsListing(calls[k])}

\* C16: at most one remote call is outstanding at any moment, and the child-listing
\* calls occur in depth-first pre-order: the listing of a node follows the listings
\* of every node created before it, the calls of one pagination loop follow each
\* other, cursor by cursor, and the nodes of the finished tree were created in
\* pre-order.
C16_SingleStreamPreorder ==
  /\ Cardinality(outstanding) <= 1
  /\ \A k \in ListingCalls : \E n \in NodeIds : nodes[n].id = calls[k].id
  /\ \A k, l \in ListingCalls : k < l =>
       \/ NodeOf(calls[k].id) < NodeOf(calls[l].id)
       \/ /\ calls[k].id = calls[l].id
          /\ calls[k].cursor < calls[l].cursor
          /\ \A m \in ListingCalls : (k < m /\ m < l) => calls[m].id = calls[k].id
  /\ Built => Preorder(tree) = [j \in 1..Len(nodes) |-> j]

\* the node ids of the child-listing calls, in the order of the call history
ListingOrder ==
  LET listings == SelectSeq(calls, IsListing)
  IN [j \in 1..Len(listings) |-> listings[j].id]

\* C16 witness: a root page with one child page and a second root page, unbounded
\* depth: the three listings were issued in the order root, child, second root
C16_Witness ==
  /\ rendered
  /\ tree = <<1, 3>> /\ nodes[1].children = <<2>>
  /\ ListingOrder = <<nodes[1].id, nodes[2].id, nodes[3].id>>

(***************************************************************************)
(* The lifecycle of a node.                                                *)
(***************************************************************************)
\* the remote items a listing has handed to the traversal
SeededIds ==
  Range(IdsOf(rootItems)) \cup Range(IdsOf(fetch.children))
    \cup UNION {Range(IdsOf(stack[i].items)) : i \in 1..Len(stack)}

\* the lifecycle of the remote item id: 0 unknown, 1 Seeded (listed, no node yet),
\* 2 Expanding (its activation of buildTreeRecursively is running), 3 Complete
\* (buildTreeRecursively has returned its node)
Lifecycle(id) ==
  IF \E n \in NodeIds : nodes[n].id = id
  THEN IF Complete(NodeOf(id)) THEN 3 ELSE 2
  ELSE IF id \in SeededIds THEN 1
  ELSE 0

\* C17 (state part): a child is in a children list only when it is Complete, so a
\* Complete node has Complete children only; a node that is Expanding was Seeded by
\* a listing, and the node handed back to a caller is Complete.
C17_ChildrenAreComplete ==
  /\ \A p \in NodeIds : \A c \in Range(nodes[p].children) : Complete(c)
  /\ \A n \in NodeIds : Complete(n) =>
       \A c \in Range(nodes[n].children) : Lifecycle(nodes[c].id) = 3
  /\ ret # 0 => Complete(ret)

\* C17 (step part): an item moves only forward, from unknown to Seeded, from Seeded to
\* Expanding or, at the depth bound only, straight to Complete, from Expanding to
\* Complete; and the child a step appends is the Complete node handed back by
\* buildTreeRecursively.
C17_ForwardOnly ==
  /\ \A id \in 1..MaxIds :
       /\ Lifecycle(id)' >= Lifecycle(id)
       /\ Lifecycle(id) = 0 => Lifecycle(id)' <= 1
       /\ (Lifecycle(id) = 1 /\ Lifecycle(id)' = 3) =>
            (entry = "cli" /\ NodeDepth(NodeOf(id))' >= options.maxDepth)
  /\ \A p \in NodeIds : nodes'[p].children # nodes[p].children =>
       /\ nodes'[p].children = Append(nodes[p].children, ret)
       /\ Complete(ret)
       /\ ~Complete(p)

\* C17: each node moves only forward through Seeded, Expanding, Complete (or from
\* Seeded straight to Complete when the depth bound is hit); a node is Complete only
\* when all its children are Complete, and a child is appended to its parent only
\* after the child is Complete.
C17_NodeLifecycle == []C17_ChildrenAreComplete /\ [][C17_ForwardOnly]_vars

\* C17 witness: a Complete root with a Complete child, a second root Expanding with
\* its listing pending
C17_Witness ==
  /\ Len(nodes) = 3 /\ tree = <<1>> /\ nodes[1].children = <<2>>
  /\ Lifecycle(nodes[1].id) = 3 /\ Lifecycle(nodes[2].id) = 3
  /\ Lifecycle(nodes[3].id) = 2
  /\ outstanding # {}

(***************************************************************************)
(* No retries.                                                             *)
(***************************************************************************)
\* the calls k and l of the history have the same operation, target and cursor
SameCall(k, l) ==
  /\ calls[k].op = calls[l].op
  /\ calls[k].id = calls[l].id
  /\ calls[k].cursor = calls[l].cursor

\* C18: no remote call is retried.  No call of the history is issued a second time
\* with the same operation, target and cursor, whether it failed or not; after a
\* failed listing call no further listing call for that node is issued at all; and
\* each remote item gets one node, whose children listing is started at most once.
C18_NoRetry ==
  /\ \A k, l \in 1..Len(calls) : k < l => ~SameCall(k, l)
  /\ \A c \in outstanding : \A k \in 1..Len(calls) :
       ~(calls[k].op = c.op /\ calls[k].id = c.id /\ calls[k].cursor = c.cursor)
  /\ \A k \in ListingCalls : ~calls[k].ok =>
       /\ \A l \in ListingCalls : l > k => calls[l].id # calls[k].id
       /\ \A c \in outstanding : IsListing(c) => c.id # calls[k].id
  /\ \A n, m \in NodeIds : nodes[n].id = nodes[m].id => n = m
  /\ \A n \in NodeIds :
       Cardinality({c \in Issued : IsListing(c) /\ c.id = nodes[n].id
                                     /\ c.cursor = undefined}) <= 1

\* C18 witness: the second listing call of a root page failed, and the run went on
\* to list the child the first call had reported and rendered the tree
C18_Witness ==
  /\ rendered /\ Len(tree) = 1 /\ Len(nodes) = 2
  /\ \E k \in ListingCalls :
       /\ ~calls[k].ok /\ calls[k].cursor # undefined
       /\ k < Len(calls)
       /\ \A l \in ListingCalls : l > k => calls[l].id = nodes[2].id

(***************************************************************************)
(* What a step leaves alone.                                               *)
(***************************************************************************)
\* the nodes of the subtree rooted at n
Subtree(n) == Range(Preorder(<<n>>))

\* C19 (step part): every step keeps every node and its id, title, kind and url; it
\* changes a children list only by appending at its end, and only of a node whose
\* own activation of buildTreeRecursively is looping over its children; a Complete
\* node stays Complete and its whole subtree is unchanged; the depth-0 array only
\* grows at its end.
C19_Frame ==
  /\ Len(nodes') >= Len(nodes)
  /\ IsPrefix(tree, tree')
  /\ \A n \in NodeIds :
       /\ nodes'[n].id = nodes[n].id
       /\ nodes'[n].title = nodes[n].title
       /\ nodes'[n].type = nodes[n].type
       /\ nodes'[n].url = nodes[n].url
       /\ IsPrefix(nodes[n].children, nodes'[n].children)
       /\ nodes'[n].children # nodes[n].children =>
            /\ Len(nodes'[n].children) = Len(nodes[n].children) + 1
            /\ stack # <<>>
            /\ stack[Len(stack)].node = n /\ stack[Len(stack)].state = "loop"
       /\ Complete(n) =>
            /\ Complete(n)'
            /\ \A m \in Subtree(n) : nodes'[m] = nodes[m]

\* C19: a TreeNode's id, title, kind and url never change after creation; its
\* children change only by appending at the end, and only while the node's own
\* expansion is in progress; after its completion the node and its subtree are
\* unchanged, and no node is ever removed.
C19_NodesAreStable == [][C19_Frame]_vars

\* C19 witness: a finished root page with two children, appended one after the
\* other while the root was expanding, the first a page that was itself expanded
C19_Witness ==
  /\ rendered
  /\ Len(nodes) = 3 /\ tree = <<1>>
  /\ nodes[1].type = "page" /\ nodes[1].children = <<2, 3>>
  /\ Called("list", nodes[2].id)

(***************************************************************************)
(* Termination.                                                            *)
(***************************************************************************)
\* the run ended in the fatal handler of root discovery or was interrupted
Aborted == interrupted \/ SearchFailed \/ (entry = "cli" /\ ~apiKey)

\* C20 (state part): a run that ended without a fatal root failure and without an
\* interrupt has built a node for every root and rendered the tree.
C20_EndsWithTheTree ==
  (pc = "exit" /\ ~Aborted) =>
    /\ rendered
    /\ Len(tree) = Len(rootItems)
    /\ stack = <<>> /\ outstanding = {}
    /\ \A n \in NodeIds : Complete(n)

\* C20: over a finite acyclic store whose paginations end, the run eventually ends,
\* whichever remote calls fail and whatever the depth bound is, unbounded included;
\* unless root discovery failed or the run was interrupted, it ends with the tree.
C20_TraversalTerminates == <>(pc = "exit") /\ []C20_EndsWithTheTree

\* C20 witness: an unbounded run that ended with a rendered tree of three nodes on
\* two levels although one of its listing calls failed
C20_Witness ==
  /\ pc = "exit" /\ rendered /\ Unbounded
  /\ warnings >= 1
  /\ Len(nodes) = 3 /\ Len(tree) < 3

(***************************************************************************)
(* The export script and the command line.                                 *)
(***************************************************************************)
\* the operation, target and cursor of an answered call
KeyOf(c) == Call(c.op, c.id, c.cursor)

RECURSIVE buildASCIITree(_, _)
\* buildASCIITree(nodes) from its loop index i on: one line per node, each node
\* before its children; ref is the number printed in brackets after the title,
\* i + 1 for the 0-based loop index (0: the node has no url and no number)
buildASCIITree(seq, i) ==
  IF i > Len(seq) THEN <<>>
  ELSE <<[node |-> seq[i], ref |-> IF nodes[seq[i]].url # null THEN i ELSE 0]>>
         \o buildASCIITree(nodes[seq[i]].children, 1)
         \o buildASCIITree(seq, i + 1)

RECURSIVE addURLFootnotes(_, _, _)
\* addURLFootnotes(nodes) from its loop index i on, after the footnote lines acc:
\* footnoteIndex is one more than the number of lines written so far
addURLFootnotes(seq, i, acc) ==
  IF i > Len(seq) THEN acc
  ELSE LET node == nodes[seq[i]]
           own == IF node.url # null
                  THEN Append(acc, [number |-> Len(acc) + 1, url |-> node.url])
                  ELSE acc
       IN addURLFootnotes(seq, i + 1, addURLFootnotes(node.children, 1, own))

\* the tree lines and the Links section of the exported file
AsciiLines == buildASCIITree(tree, 1)
Links == IF IncludeUrls THEN addURLFootnotes(tree, 1, <<>>) ELSE <<>>

\* C22: in the ASCII export with urls included, the reference number printed after a
\* node that has a url is the number of the footnote line that carries the url of
\* that node, and two nodes with different urls never share a reference number.
C22_FootnoteReferencesMatch ==
  (Built /\ IncludeUrls) =>
    /\ \A k \in 1..Len(AsciiLines) : AsciiLines[k].ref # 0 =>
         \E f \in 1..Len(Links) :
           /\ Links[f].number = AsciiLines[k].ref
           /\ Links[f].url = nodes[AsciiLines[k].node].url
    /\ \A k, l \in 1..Len(AsciiLines) :
         (/\ AsciiLines[k].ref # 0 /\ AsciiLines[l].ref # 0
          /\ nodes[AsciiLines[k].node].url # nodes[AsciiLines[l].node].url)
           => AsciiLines[k].ref # AsciiLines[l].ref
====
